---- MODULE Spec2Model ----
(***************************************************************************)
(* A model of the execution core of the virtual machine: the dual-domain   *)
(* register file (native and circuit stores, load and load_circuit), the   *)
(* circuit addition of scalars, the text form and the ordering of          *)
(* registers, and the serialization of values.                             *)
(***************************************************************************)
EXTENDS Integers, Sequences, FiniteSets, TLC

VARIABLES
    console_registers,  \* Registers.console_registers: locator -> Value
    circuit_registers,  \* Registers.circuit_registers: locator -> circuit Value
    register_types,     \* Registers.register_types: locator -> declared type
    caller,             \* Registers.caller (console), possibly not set
    caller_circuit,     \* Registers.caller_circuit, possibly not set
    last,               \* the last register-file operation and its outcome
    acc,                \* the scalar `self` of add_assign
    rhs,                \* the scalar `other` of the last add_assign
    before,             \* `self` as it was before the last add_assign
    expected,           \* the native sum of the last addition
    syntax,             \* a register text or value, and what was made of it
    wire                \* a value, and what serialization made of it

vars == <<console_registers, circuit_registers, register_types, caller,
          caller_circuit, last, acc, rhs, before, expected, syntax, wire>>

regVars == <<console_registers, circuit_registers, register_types, caller,
             caller_circuit, last>>

addVars == <<acc, rhs, before, expected>>

textVars == <<syntax, wire>>

(***************************************************************************)
(* Bounds of the model.                                                    *)
(***************************************************************************)
MaxLocator == 0

Locators == 0..MaxLocator

Modes == {"Constant", "Public", "Private"}

(***************************************************************************)
(* Results of fallible operations.                                         *)
(***************************************************************************)
Ok(v) == [ok |-> TRUE, value |-> v]

Err(e) == [ok |-> FALSE, error |-> e]

(***************************************************************************)
(* The value model (console): literals, structs, records, values.          *)
(***************************************************************************)
Literal(ty, v) == [ty |-> ty, val |-> v]

PlaintextFrom(literal) == [kind |-> "Literal", literal |-> literal]

Struct(members) == [kind |-> "Struct", members |-> members]

Member(name, plaintext) == [name |-> name, plaintext |-> plaintext]

Entry(name, visibility, plaintext) ==
    [name |-> name, visibility |-> visibility, plaintext |-> plaintext]

PlaintextValue(plaintext) == [variant |-> "Plaintext", plaintext |-> plaintext]

RecordValue(entries) == [variant |-> "Record", entries |-> entries]

(***************************************************************************)
(* The circuit value model: every literal carries the mode of its          *)
(* variables; structs, records and entries have the console's shape.       *)
(***************************************************************************)
CircuitLiteral(mode, literal) == [mode |-> mode, primitive |-> literal]

CircuitLiteralConstant(literal) == CircuitLiteral("Constant", literal)

CircuitIdentifierConstant(name) == [mode |-> "Constant", primitive |-> name]

RECURSIVE InjectPlaintext(_, _)
InjectPlaintext(mode, p) ==
    IF p.kind = "Literal"
    THEN PlaintextFrom(CircuitLiteral(mode, p.literal))
    ELSE Struct([i \in DOMAIN p.members |->
                   Member(CircuitIdentifierConstant(p.members[i].name),
                          InjectPlaintext(mode, p.members[i].plaintext))])

InjectValue(mode, v) ==
    IF v.variant = "Plaintext"
    THEN PlaintextValue(InjectPlaintext(mode, v.plaintext))
    ELSE RecordValue([i \in DOMAIN v.entries |->
                        Entry(CircuitIdentifierConstant(v.entries[i].name),
                              v.entries[i].visibility,
                              InjectPlaintext(mode, v.entries[i].plaintext))])

RECURSIVE EjectPlaintext(_)
EjectPlaintext(p) ==
    IF p.kind = "Literal"
    THEN PlaintextFrom(p.literal.primitive)
    ELSE Struct([i \in DOMAIN p.members |->
                   Member(p.members[i].name.primitive,
                          EjectPlaintext(p.members[i].plaintext))])

eject_value(v) ==
    IF v.variant = "Plaintext"
    THEN PlaintextValue(EjectPlaintext(v.plaintext))
    ELSE RecordValue([i \in DOMAIN v.entries |->
                        Entry(v.entries[i].name.primitive,
                              v.entries[i].visibility,
                              EjectPlaintext(v.entries[i].plaintext))])

(***************************************************************************)
(* Structural access by path.  The same descent serves both domains: the   *)
(* console's over plain identifiers, the circuit's over injected ones.     *)
(***************************************************************************)
IndexOf(seq, name) ==
    IF \E i \in DOMAIN seq : seq[i].name = name
    THEN CHOOSE i \in DOMAIN seq :
           /\ seq[i].name = name
           /\ \A j \in DOMAIN seq : seq[j].name = name => i <= j
    ELSE 0

RECURSIVE PlaintextFind(_, _)
PlaintextFind(p, path) ==
    IF path = <<>> THEN Ok(p)
    ELSE IF p.kind # "Struct" THEN Err("PathNotFound")
    ELSE LET i == IndexOf(p.members, Head(path))
         IN  IF i = 0 THEN Err("PathNotFound")
             ELSE PlaintextFind(p.members[i].plaintext, Tail(path))

plaintext_find(p, path) ==
    IF path = <<>> \/ p.kind # "Struct" THEN Err("PathNotFound")
    ELSE PlaintextFind(p, path)

record_find(entries, path) ==
    IF path = <<>> THEN Err("PathNotFound")
    ELSE LET i == IndexOf(entries, Head(path))
         IN  IF i = 0 THEN Err("PathNotFound")
             ELSE IF Tail(path) = <<>> THEN Ok(entries[i])
             ELSE LET inner == plaintext_find(entries[i].plaintext, Tail(path))
                  IN  IF inner.ok
                      THEN Ok(Entry(entries[i].name, entries[i].visibility,
                                    inner.value))
                      ELSE inner

(***************************************************************************)
(* Registers and operands.                                                 *)
(***************************************************************************)
RegisterLocator(l) == [kind |-> "Locator", locator |-> l]

RegisterMember(l, path) == [kind |-> "Member", locator |-> l, path |-> path]

locator(register) == register.locator

OperandLiteral(literal) == [kind |-> "Literal", literal |-> literal]

OperandRegister(register) == [kind |-> "Register", register |-> register]

OperandProgramID(program_id) == [kind |-> "ProgramID", program_id |-> program_id]

OperandCaller == [kind |-> "Caller"]

(***************************************************************************)
(* Declared types: the shape of a value without its literals.              *)
(***************************************************************************)
LiteralType(ty) == [kind |-> "Literal", ty |-> ty]

StructType(members) == [kind |-> "Struct", members |-> members]

MemberType(name, type) == [name |-> name, type |-> type]

EntryType(name, visibility, type) ==
    [name |-> name, visibility |-> visibility, type |-> type]

PlaintextRegisterType(type) == [variant |-> "Plaintext", type |-> type]

RecordRegisterType(entries) == [variant |-> "Record", entries |-> entries]

RECURSIVE TypeFind(_, _)
TypeFind(t, path) ==
    IF path = <<>> THEN Ok(t)
    ELSE IF t.kind # "Struct" THEN Err("NotDeclared")
    ELSE LET i == IndexOf(t.members, Head(path))
         IN  IF i = 0 THEN Err("NotDeclared")
             ELSE TypeFind(t.members[i].type, Tail(path))

get_type(types, register) ==
    IF locator(register) \notin DOMAIN types THEN Err("NotDeclared")
    ELSE LET declared == types[locator(register)]
         IN  IF register.kind = "Locator" THEN Ok(declared)
             ELSE IF declared.variant = "Plaintext"
             THEN LET t == TypeFind(declared.type, register.path)
                  IN  IF t.ok THEN Ok(PlaintextRegisterType(t.value)) ELSE t
             ELSE LET i == IndexOf(declared.entries, Head(register.path))
                  IN  IF i = 0 THEN Err("NotDeclared")
                      ELSE LET t == TypeFind(declared.entries[i].type,
                                             Tail(register.path))
                           IN  IF t.ok THEN Ok(PlaintextRegisterType(t.value))
                               ELSE t

RECURSIVE matches_plaintext(_, _)
matches_plaintext(p, t) ==
    IF p.kind = "Literal"
    THEN t.kind = "Literal" /\ p.literal.ty = t.ty
    ELSE /\ t.kind = "Struct"
         /\ Len(p.members) = Len(t.members)
         /\ \A i \in DOMAIN p.members :
              /\ p.members[i].name = t.members[i].name
              /\ matches_plaintext(p.members[i].plaintext, t.members[i].type)

matches_register_type(value, type) ==
    IF value.variant = "Plaintext"
    THEN type.variant = "Plaintext" /\ matches_plaintext(value.plaintext, type.type)
    ELSE /\ type.variant = "Record"
         /\ Len(value.entries) = Len(type.entries)
         /\ \A i \in DOMAIN value.entries :
              /\ value.entries[i].name = type.entries[i].name
              /\ value.entries[i].visibility = type.entries[i].visibility
              /\ matches_plaintext(value.entries[i].plaintext,
                                   type.entries[i].type)

(***************************************************************************)
(* The calling context.  to_address derives a program's address from its   *)
(* identifier; the caller of either domain may not have been set.          *)
(***************************************************************************)
NotSet == [set |-> FALSE]

SetTo(a) == [set |-> TRUE, address |-> a]

to_address(program_id) ==
    Ok(IF program_id = "token.aleo" THEN 11 ELSE 12)

get_caller(c) ==
    IF c.set THEN Ok(c.address) ELSE Err("CallerNotSet")

AddressLiteral(a) == Literal("address", a)

CircuitAddress(mode, a) == [mode |-> mode, primitive |-> a]

CircuitLiteralAddress(address) ==
    CircuitLiteral(address.mode, AddressLiteral(address.primitive))

(***************************************************************************)
(* Load::load.                                                             *)
(***************************************************************************)
\* A faulty variant of load_member: only a private entry is unwrapped.
load_member_private_only(stack_value, path) ==
    IF stack_value.variant = "Plaintext"
    THEN LET found == plaintext_find(stack_value.plaintext, path)
         IN  IF found.ok THEN Ok(PlaintextValue(found.value)) ELSE found
    ELSE LET found == record_find(stack_value.entries, path)
         IN  IF ~found.ok THEN found
             ELSE IF found.value.visibility = "Private"
             THEN Ok(PlaintextValue(found.value.plaintext))
             ELSE Err("PathNotFound")

load_member(stack_value, path) ==
    IF stack_value.variant = "Plaintext"
    THEN LET found == plaintext_find(stack_value.plaintext, path)
         IN  IF found.ok THEN Ok(PlaintextValue(found.value)) ELSE found
    ELSE LET found == record_find(stack_value.entries, path)
         IN  IF found.ok THEN Ok(PlaintextValue(found.value.plaintext))
             ELSE found

load_register(registers, register) ==
    IF locator(register) \notin DOMAIN registers THEN Err("DoesNotExist")
    ELSE LET stack_value == registers[locator(register)]
         IN  IF register.kind = "Locator" THEN Ok(stack_value)
             ELSE load_member(stack_value, register.path)

\* A faulty variant of check_register_type: an undeclared register passes the check.
check_register_type_undeclared_ok(types, register, stack_value) ==
    LET register_type == get_type(types, register)
    IN  IF ~register_type.ok THEN Ok(stack_value)
        ELSE IF ~matches_register_type(stack_value, register_type.value)
        THEN Err("TypeMismatch")
        ELSE Ok(stack_value)

check_register_type(types, register, stack_value) ==
    LET register_type == get_type(types, register)
    IN  IF ~register_type.ok THEN Err("NotAMember")
        ELSE IF ~matches_register_type(stack_value, register_type.value)
        THEN Err("TypeMismatch")
        ELSE Ok(stack_value)

\* A faulty variant of load: the type of a register is looked up before the store.
load_type_first(registers, types, c, operand) ==
    CASE operand.kind = "Literal" ->
           Ok(PlaintextValue(PlaintextFrom(operand.literal)))
      [] operand.kind = "ProgramID" ->
           LET address == to_address(operand.program_id)
           IN  IF address.ok
               THEN Ok(PlaintextValue(PlaintextFrom(AddressLiteral(address.value))))
               ELSE address
      [] operand.kind = "Caller" ->
           LET address == get_caller(c)
           IN  IF address.ok
               THEN Ok(PlaintextValue(PlaintextFrom(AddressLiteral(address.value))))
               ELSE address
      [] operand.kind = "Register" ->
           IF ~get_type(types, operand.register).ok THEN Err("NotAMember")
           ELSE LET stack_value == load_register(registers, operand.register)
                IN  IF ~stack_value.ok THEN stack_value
                    ELSE check_register_type(types, operand.register,
                                             stack_value.value)

\* A faulty variant of load: a literal does not return at once but is looked up like
\* register 0.
load_literal_through_store(registers, types, c, operand) ==
    CASE operand.kind = "Literal" ->
           IF 0 \notin DOMAIN registers THEN Err("DoesNotExist")
           ELSE Ok(PlaintextValue(PlaintextFrom(operand.literal)))
      [] operand.kind = "ProgramID" ->
           LET address == to_address(operand.program_id)
           IN  IF address.ok
               THEN Ok(PlaintextValue(PlaintextFrom(AddressLiteral(address.value))))
               ELSE address
      [] operand.kind = "Caller" ->
           LET address == get_caller(c)
           IN  IF address.ok
               THEN Ok(PlaintextValue(PlaintextFrom(AddressLiteral(address.value))))
               ELSE address
      [] operand.kind = "Register" ->
           LET stack_value == load_register(registers, operand.register)
           IN  IF ~stack_value.ok THEN stack_value
               ELSE check_register_type(types, operand.register,
                                        stack_value.value)

load(registers, types, c, operand) ==
    CASE operand.kind = "Literal" ->
           Ok(PlaintextValue(PlaintextFrom(operand.literal)))
      [] operand.kind = "ProgramID" ->
           LET address == to_address(operand.program_id)
           IN  IF address.ok
               THEN Ok(PlaintextValue(PlaintextFrom(AddressLiteral(address.value))))
               ELSE address
      [] operand.kind = "Caller" ->
           LET address == get_caller(c)
           IN  IF address.ok
               THEN Ok(PlaintextValue(PlaintextFrom(AddressLiteral(address.value))))
               ELSE address
      [] operand.kind = "Register" ->
           LET stack_value == load_register(registers, operand.register)
           IN  IF ~stack_value.ok THEN stack_value
               ELSE check_register_type(types, operand.register,
                                        stack_value.value)

(***************************************************************************)
(* LoadCircuit::load_circuit.                                              *)
(***************************************************************************)
inject_path(path) == [i \in DOMAIN path |-> CircuitIdentifierConstant(path[i])]

load_circuit_member(circuit_value, path) ==
    LET circuit_path == inject_path(path)
    IN  IF circuit_value.variant = "Plaintext"
        THEN LET found == plaintext_find(circuit_value.plaintext, circuit_path)
             IN  IF found.ok THEN Ok(PlaintextValue(found.value)) ELSE found
        ELSE LET found == record_find(circuit_value.entries, circuit_path)
             IN  IF found.ok THEN Ok(PlaintextValue(found.value.plaintext))
                 ELSE found

load_circuit_register(registers, register) ==
    IF locator(register) \notin DOMAIN registers THEN Err("DoesNotExist")
    ELSE LET circuit_value == registers[locator(register)]
         IN  IF register.kind = "Locator" THEN Ok(circuit_value)
             ELSE load_circuit_member(circuit_value, register.path)

\* A faulty variant of check_circuit_register_type: the shape of a declared register's
\* value is not checked.
check_circuit_register_type_unchecked(types, register, circuit_value) ==
    LET register_type == get_type(types, register)
    IN  IF ~register_type.ok THEN Err("NotAMember")
        ELSE Ok(circuit_value)

check_circuit_register_type(types, register, circuit_value) ==
    LET register_type == get_type(types, register)
    IN  IF ~register_type.ok THEN Err("NotAMember")
        ELSE IF ~matches_register_type(eject_value(circuit_value),
                                       register_type.value)
        THEN Err("TypeMismatch")
        ELSE Ok(circuit_value)

load_circuit(registers, types, c, operand) ==
    CASE operand.kind = "Literal" ->
           Ok(PlaintextValue(PlaintextFrom(CircuitLiteralConstant(operand.literal))))
      [] operand.kind = "ProgramID" ->
           LET address == to_address(operand.program_id)
           IN  IF address.ok
               THEN Ok(PlaintextValue(PlaintextFrom(
                        CircuitLiteralConstant(AddressLiteral(address.value)))))
               ELSE address
      [] operand.kind = "Caller" ->
           LET address == get_caller(c)
           IN  IF address.ok
               THEN Ok(PlaintextValue(PlaintextFrom(
                        CircuitLiteralAddress(address.value))))
               ELSE address
      [] operand.kind = "Register" ->
           LET circuit_value == load_circuit_register(registers, operand.register)
           IN  IF ~circuit_value.ok THEN circuit_value
               ELSE check_circuit_register_type(types, operand.register,
                                                circuit_value.value)

(***************************************************************************)
(* store, of either domain: writes a value under a locator register once.  *)
(***************************************************************************)
Insert(registers, l, value) ==
    [k \in DOMAIN registers \cup {l} |-> IF k = l THEN value ELSE registers[k]]

\* A faulty variant of store: a second store to a locator overwrites its value.
store_overwrite(registers, register, value) ==
    IF register.kind # "Locator"
    THEN [ok |-> FALSE, error |-> "StoreToMember", registers |-> registers]
    ELSE [ok |-> TRUE, error |-> "",
          registers |-> Insert(registers, locator(register), value)]

store(registers, register, value) ==
    IF register.kind # "Locator"
    THEN [ok |-> FALSE, error |-> "StoreToMember", registers |-> registers]
    ELSE IF locator(register) \in DOMAIN registers
    THEN [ok |-> FALSE, error |-> "DoubleAssignment", registers |-> registers]
    ELSE [ok |-> TRUE, error |-> "",
          registers |-> Insert(registers, locator(register), value)]

(***************************************************************************)
(* Scalars.  The scalar field has modulus ScalarModulus; the base field,   *)
(* in which the circuit represents a scalar, is larger.                    *)
(***************************************************************************)
ScalarModulus == 7

BaseModulus == 4 * ScalarModulus + 1

ScalarValues == 0..(ScalarModulus - 1)

RECURSIVE BitLength(_)
BitLength(n) == IF n = 0 THEN 0 ELSE 1 + BitLength(n \div 2)

size_in_bits == BitLength(ScalarModulus)

RECURSIVE Pow2(_)
Pow2(n) == IF n = 0 THEN 1 ELSE 2 * Pow2(n - 1)

ToBitsLE(value, n) == [i \in 1..n |-> (value \div Pow2(i - 1)) % 2]

RECURSIVE FromBitsLE(_)
FromBitsLE(bits) ==
    IF bits = <<>> THEN 0 ELSE Head(bits) + 2 * FromBitsLE(Tail(bits))

\* Addition of the console (native) scalar type.
console_add(u, v) == (u + v) % ScalarModulus

(***************************************************************************)
(* The circuit primitives add_assign is built from.  A circuit field       *)
(* element or boolean is a mode and a value of the base field.             *)
(***************************************************************************)
combine_mode(a, b) ==
    IF a = "Constant" /\ b = "Constant" THEN "Constant" ELSE "Private"

Field(mode, value) == [mode |-> mode, value |-> value]

field_constant(value) == Field("Constant", value % BaseModulus)

field_add(a, b) ==
    Field(combine_mode(a.mode, b.mode), (a.value + b.value) % BaseModulus)

field_sub(a, b) ==
    Field(combine_mode(a.mode, b.mode),
          (a.value + BaseModulus - b.value) % BaseModulus)

to_lower_bits_le(a, n) ==
    [mode |-> combine_mode(a.mode, "Constant"), bits |-> ToBitsLE(a.value, n)]

from_bits_le(b) == Field(b.mode, FromBitsLE(b.bits) % BaseModulus)

is_less_than(a, b) ==
    [mode |-> combine_mode(a.mode, b.mode), value |-> a.value < b.value]

ternary(condition, a, b) ==
    Field(combine_mode(condition.mode, combine_mode(a.mode, b.mode)),
          IF condition.value THEN a.value ELSE b.value)

(***************************************************************************)
(* The circuit scalar: its base-field element and its cached bits.         *)
(***************************************************************************)
NoBits == <<>>

Scalar(field, bits_le) == [field |-> field, bits_le |-> bits_le]

scalar_new(mode, value) == Scalar(Field(mode, value), NoBits)

is_constant(scalar) == scalar.field.mode = "Constant"

eject_mode(scalar) == scalar.field.mode

to_field(scalar) == scalar.field

scalar_eject_value(scalar) == scalar.field.value

scalar_modulus_field ==
    field_constant(FromBitsLE(ToBitsLE(ScalarModulus, size_in_bits)))

(***************************************************************************)
(* AddAssign<&Scalar<E>>::add_assign, OutputMode::output_mode and          *)
(* Metrics::count.                                                         *)
(***************************************************************************)
\* A faulty variant of add_assign: the sum is decomposed without its carry bit.
add_assign_no_carry(self, other) ==
    IF is_constant(self) /\ is_constant(other)
    THEN scalar_new(combine_mode(self.field.mode, other.field.mode),
                    console_add(scalar_eject_value(self),
                                scalar_eject_value(other)))
    ELSE LET sum          == field_add(to_field(self), to_field(other))
             bits_le      == to_lower_bits_le(sum, size_in_bits)
             sanitized    == from_bits_le(bits_le)
             modulus      == scalar_modulus_field
             wrapping_sum == ternary(is_less_than(sanitized, modulus),
                                     sanitized,
                                     field_sub(sanitized, modulus))
         IN  Scalar(wrapping_sum,
                    to_lower_bits_le(wrapping_sum, size_in_bits).bits)

\* A faulty variant of add_assign: the sum is kept as it is, never reduced.
add_assign_unreduced(self, other) ==
    IF is_constant(self) /\ is_constant(other)
    THEN scalar_new(combine_mode(self.field.mode, other.field.mode),
                    console_add(scalar_eject_value(self),
                                scalar_eject_value(other)))
    ELSE LET sum          == field_add(to_field(self), to_field(other))
             bits_le      == to_lower_bits_le(sum, size_in_bits + 1)
             sanitized    == from_bits_le(bits_le)
         IN  Scalar(sanitized,
                    to_lower_bits_le(sanitized, size_in_bits).bits)

\* A faulty variant of add_assign: a sum that reached the modulus loses
\* `other` instead of the modulus.
add_assign_subtracts_other(self, other) ==
    IF is_constant(self) /\ is_constant(other)
    THEN scalar_new(combine_mode(self.field.mode, other.field.mode),
                    console_add(scalar_eject_value(self),
                                scalar_eject_value(other)))
    ELSE LET sum          == field_add(to_field(self), to_field(other))
             bits_le      == to_lower_bits_le(sum, size_in_bits + 1)
             sanitized    == from_bits_le(bits_le)
             modulus      == scalar_modulus_field
             wrapping_sum == ternary(is_less_than(sanitized, modulus),
                                     sanitized,
                                     field_sub(sanitized, to_field(other)))
         IN  Scalar(wrapping_sum,
                    to_lower_bits_le(wrapping_sum, size_in_bits).bits)

\* A faulty variant of add_assign: the cached bits are those of the sum
\* before its reduction.
add_assign_stale_bits(self, other) ==
    IF is_constant(self) /\ is_constant(other)
    THEN scalar_new(combine_mode(self.field.mode, other.field.mode),
                    console_add(scalar_eject_value(self),
                                scalar_eject_value(other)))
    ELSE LET sum          == field_add(to_field(self), to_field(other))
             bits_le      == to_lower_bits_le(sum, size_in_bits + 1)
             sanitized    == from_bits_le(bits_le)
             modulus      == scalar_modulus_field
             wrapping_sum == ternary(is_less_than(sanitized, modulus),
                                     sanitized,
                                     field_sub(sanitized, modulus))
         IN  Scalar(wrapping_sum,
                    to_lower_bits_le(sanitized, size_in_bits).bits)

add_assign(self, other) ==
    IF is_constant(self) /\ is_constant(other)
    THEN scalar_new(combine_mode(self.field.mode, other.field.mode),
                    console_add(scalar_eject_value(self),
                                scalar_eject_value(other)))
    ELSE LET sum          == field_add(to_field(self), to_field(other))
             bits_le      == to_lower_bits_le(sum, size_in_bits + 1)
             sanitized    == from_bits_le(bits_le)
             modulus      == scalar_modulus_field
             wrapping_sum == ternary(is_less_than(sanitized, modulus),
                                     sanitized,
                                     field_sub(sanitized, modulus))
         IN  Scalar(wrapping_sum,
                    to_lower_bits_le(wrapping_sum, size_in_bits).bits)

\* A faulty variant of output_mode: only the first mode decides.
output_mode_first_only(mode_a, mode_b) ==
    IF mode_a = "Constant" THEN "Constant" ELSE "Private"

output_mode(mode_a, mode_b) ==
    IF mode_a = "Constant" /\ mode_b = "Constant" THEN "Constant"
    ELSE "Private"

Count(constants, public, private, constraints) ==
    [constants |-> constants, public |-> public, private |-> private,
     constraints |-> constraints]

count(mode_a, mode_b) ==
    IF mode_a = "Constant" /\ mode_b = "Constant" THEN Count(1, 0, 0, 0)
    ELSE Count(1, 0, 755, 757)

(***************************************************************************)
(* The inputs of the model: a few literals, values of every shape, the     *)
(* circuit values injected from them, paths, registers and operands.       *)
(***************************************************************************)
U64Literal == Literal("u64", 100)

BooleanLiteral == Literal("boolean", 1)

Literals == {U64Literal, BooleanLiteral}

TokenStruct == Struct(<<Member("amount", PlaintextFrom(U64Literal))>>)

LiteralValue == PlaintextValue(PlaintextFrom(U64Literal))

StructValue ==
    PlaintextValue(Struct(<<Member("token", TokenStruct),
                            Member("amount", PlaintextFrom(U64Literal))>>))

TokenRecord(visibility) ==
    RecordValue(<<Entry("amount", visibility, PlaintextFrom(U64Literal)),
                  Entry("token", "Public", TokenStruct)>>)

Values == {LiteralValue, StructValue, TokenRecord("Private"), TokenRecord("Public")}

CircuitValues ==
    {InjectValue("Private", v) : v \in Values \ {LiteralValue}}
        \cup {InjectValue("Constant", LiteralValue)}

Paths == {<<"amount">>, <<"token", "amount">>, <<"owner">>}

Registers ==
    {RegisterLocator(l) : l \in Locators}
        \cup {RegisterMember(l, path) : l \in Locators, path \in Paths}

StoreRegisters ==
    {RegisterLocator(l) : l \in Locators}
        \cup {RegisterMember(l, <<"amount">>) : l \in Locators}

ProgramIDs == {"token.aleo"}

Operands ==
    {OperandLiteral(l) : l \in Literals}
        \cup {OperandRegister(r) : r \in Registers}
        \cup {OperandProgramID(p) : p \in ProgramIDs}
        \cup {OperandCaller}

U64Type == LiteralType("u64")

TokenStructType == StructType(<<MemberType("amount", U64Type)>>)

TokenRecordType ==
    RecordRegisterType(<<EntryType("amount", "Private", U64Type),
                         EntryType("token", "Public", TokenStructType)>>)

NoRegisters == [l \in {} |-> LiteralValue]

Declarations ==
    {NoRegisters,
     [l \in {0, 1} |-> IF l = 0 THEN TokenRecordType
                       ELSE PlaintextRegisterType(U64Type)]}

Callers ==
    {<<NotSet, NotSet>>,
     <<SetTo(21), SetTo(CircuitAddress("Public", 21))>>}

(***************************************************************************)
(* The register file of one function activation.                          *)
(***************************************************************************)
NoScalar == Scalar(Field("None", 0), NoBits)

InitScalars ==
    /\ acc = NoScalar
    /\ rhs = NoScalar
    /\ before = NoScalar
    /\ expected = 0

InitText ==
    /\ syntax = [op |-> "none"]
    /\ wire = [op |-> "none"]

Init ==
    /\ console_registers = NoRegisters
    /\ circuit_registers = NoRegisters
    /\ register_types \in Declarations
    /\ \E c \in Callers : caller = c[1] /\ caller_circuit = c[2]
    /\ last = [op |-> "none"]
    /\ InitScalars
    /\ InitText

\* A store that fails does not read its value: one value stands for all.
StoreInputs(registers, register, values) ==
    IF register.kind = "Locator" /\ locator(register) \notin DOMAIN registers
    THEN values
    ELSE {CHOOSE value \in values : TRUE}

Store ==
    \E register \in StoreRegisters :
        \E value \in StoreInputs(console_registers, register, Values) :
            LET outcome == store(console_registers, register, value)
            IN  /\ console_registers' = outcome.registers
                /\ last' = [op |-> "store", register |-> register,
                            result |-> [ok |-> outcome.ok,
                                        error |-> outcome.error]]
                /\ UNCHANGED <<circuit_registers, register_types, caller,
                               caller_circuit>>
                /\ UNCHANGED addVars
                /\ UNCHANGED textVars

StoreCircuit ==
    \E register \in StoreRegisters :
        \E value \in StoreInputs(circuit_registers, register, CircuitValues) :
            LET outcome == store(circuit_registers, register, value)
            IN  /\ circuit_registers' = outcome.registers
                /\ last' = [op |-> "store_circuit", register |-> register,
                            result |-> [ok |-> outcome.ok,
                                        error |-> outcome.error]]
                /\ UNCHANGED <<console_registers, register_types, caller,
                               caller_circuit>>
                /\ UNCHANGED addVars
                /\ UNCHANGED textVars

\* A faulty variant of Load: a register that was read is taken out of the
\* store.
Load_consuming ==
    \E operand \in Operands :
        /\ last' = [op |-> "load", operand |-> operand,
                    result |-> load(console_registers, register_types, caller,
                                    operand)]
        /\ console_registers' =
               IF operand.kind = "Register"
               THEN [l \in DOMAIN console_registers
                            \ {locator(operand.register)} |->
                        console_registers[l]]
               ELSE console_registers
        /\ UNCHANGED <<circuit_registers, register_types, caller,
                       caller_circuit>>
        /\ UNCHANGED addVars
        /\ UNCHANGED textVars

Load ==
    \E operand \in Operands :
        /\ last' = [op |-> "load", operand |-> operand,
                    result |-> load(console_registers, register_types, caller,
                                    operand)]
        /\ UNCHANGED <<console_registers, circuit_registers, register_types,
                       caller, caller_circuit>>
        /\ UNCHANGED addVars
        /\ UNCHANGED textVars

LoadCircuit ==
    \E operand \in Operands :
        /\ last' = [op |-> "load_circuit", operand |-> operand,
                    result |-> load_circuit(circuit_registers, register_types,
                                            caller_circuit, operand)]
        /\ UNCHANGED <<console_registers, circuit_registers, register_types,
                       caller, caller_circuit>>
        /\ UNCHANGED addVars
        /\ UNCHANGED textVars

Next == Store \/ StoreCircuit \/ Load \/ LoadCircuit

Spec == Init /\ [][Next]_vars

(***************************************************************************)
(* Scalar addition: a scalar of any mode and canonical value, to which     *)
(* scalars of any mode and canonical value are added one after another.    *)
(***************************************************************************)
InitAdd ==
    /\ console_registers = NoRegisters
    /\ circuit_registers = NoRegisters
    /\ register_types = NoRegisters
    /\ caller = NotSet
    /\ caller_circuit = NotSet
    /\ last = [op |-> "none"]
    /\ \E mode \in Modes, value \in ScalarValues : acc = scalar_new(mode, value)
    /\ rhs = NoScalar
    /\ before = NoScalar
    /\ expected = 0
    /\ InitText

AddAssign ==
    \E mode \in Modes, value \in ScalarValues :
        LET other == scalar_new(mode, value)
        IN  /\ before' = acc
            /\ rhs' = other
            /\ expected' = console_add(scalar_eject_value(acc),
                                       scalar_eject_value(other))
            /\ acc' = add_assign(acc, other)
            /\ UNCHANGED regVars
            /\ UNCHANGED textVars

NextAdd == AddAssign

SpecAdd == InitAdd /\ [][NextAdd]_vars

(***************************************************************************)
(* Vocabulary of the claims.                                               *)
(***************************************************************************)
\* The circuit store and caller project onto the native store and caller.
Consistent ==
    /\ DOMAIN circuit_registers = DOMAIN console_registers
    /\ \A l \in DOMAIN console_registers :
         eject_value(circuit_registers[l]) = console_registers[l]
    /\ caller.set = caller_circuit.set
    /\ caller.set => caller_circuit.address.primitive = caller.address

\* A native and a circuit outcome agree: both fail, or both succeed and the
\* circuit value ejects to the native value.
Fidelity(native, circuit) ==
    /\ native.ok = circuit.ok
    /\ native.ok => eject_value(circuit.value) = native.value

IsLoad == last.op \in {"load", "load_circuit"}

IsRegisterLoad == IsLoad /\ last.operand.kind = "Register"

\* The store the last load read, in its own domain.
LoadedStore ==
    IF last.op = "load" THEN console_registers ELSE circuit_registers

\* A value of the last load's domain as a plain value.
PlainOf(value) ==
    IF last.op = "load" THEN value ELSE eject_value(value)

\* The value the last load resolved for its register, before the type check.
Resolved ==
    IF last.op = "load"
    THEN load_register(console_registers, last.operand.register)
    ELSE load_circuit_register(circuit_registers, last.operand.register)

\* C1: over a register file whose circuit store and caller eject to the
\* native ones, load and load_circuit of the same operand both fail or both
\* succeed, and the circuit result ejects to the native result.
C1_LoadFidelity ==
    (IsLoad /\ Consistent) =>
        /\ last.op = "load" =>
             Fidelity(last.result,
                      load_circuit(circuit_registers, register_types,
                                   caller_circuit, last.operand))
        /\ last.op = "load_circuit" =>
             Fidelity(load(console_registers, register_types, caller,
                           last.operand),
                      last.result)

C1_Witness ==
    /\ Consistent
    /\ last.op = "load_circuit"
    /\ last.operand.kind = "Register"
    /\ last.operand.register.kind = "Member"
    /\ last.result.ok
    /\ console_registers[locator(last.operand.register)].variant = "Record"

\* C3: a store to a locator that was already written fails with
\* DoubleAssignment, and no step changes or removes the value a locator
\* holds, in either store.
C3_SingleAssignment ==
    [][/\ \A l \in DOMAIN console_registers :
            /\ l \in DOMAIN console_registers'
            /\ console_registers'[l] = console_registers[l]
       /\ \A l \in DOMAIN circuit_registers :
            /\ l \in DOMAIN circuit_registers'
            /\ circuit_registers'[l] = circuit_registers[l]
       /\ (/\ last'.op = "store"
           /\ locator(last'.register) \in DOMAIN console_registers)
            => /\ ~last'.result.ok
               /\ last'.register.kind = "Locator"
                    => last'.result.error = "DoubleAssignment"
       /\ (/\ last'.op = "store_circuit"
           /\ locator(last'.register) \in DOMAIN circuit_registers)
            => /\ ~last'.result.ok
               /\ last'.register.kind = "Locator"
                    => last'.result.error = "DoubleAssignment"]_vars

C3_Witness ==
    /\ last.op = "store"
    /\ ~last.result.ok
    /\ last.result.error = "DoubleAssignment"
    /\ locator(last.register) \in DOMAIN console_registers

\* C4: a register load that succeeds returns a value matching the type
\* declared for the register (path included); a register with no declared
\* type never loads, and fails as not a member once its value is resolved; a
\* resolved value of another shape fails with a type mismatch.
C4_TypeCheckedLoad ==
    IsRegisterLoad =>
        LET register == last.operand.register
            declared == get_type(register_types, register)
        IN  /\ last.result.ok =>
                 /\ declared.ok
                 /\ matches_register_type(PlainOf(last.result.value),
                                          declared.value)
            /\ ~declared.ok => ~last.result.ok
            /\ (Resolved.ok /\ ~declared.ok) =>
                 last.result = Err("NotAMember")
            /\ (/\ Resolved.ok
                /\ declared.ok
                /\ ~matches_register_type(PlainOf(Resolved.value),
                                          declared.value))
                 => last.result = Err("TypeMismatch")

C4_Witness ==
    /\ IsRegisterLoad
    /\ locator(last.operand.register) \in DOMAIN LoadedStore
    /\ get_type(register_types, last.operand.register).ok
    /\ last.result = Err("TypeMismatch")

\* C5: loading a register, bare or member, whose locator was never stored
\* fails with 'does not exist' in both domains, whether or not the register
\* is declared and whatever its path.
C5_UndefinedRegister ==
    (IsRegisterLoad /\ locator(last.operand.register) \notin DOMAIN LoadedStore)
        => last.result = Err("DoesNotExist")

C5_Witness ==
    /\ last.op = "load_circuit"
    /\ last.operand.kind = "Register"
    /\ last.operand.register.kind = "Member"
    /\ locator(last.operand.register) \notin DOMAIN circuit_registers
    /\ get_type(register_types, last.operand.register).ok
    /\ last.result = Err("DoesNotExist")

\* C6: load of a literal operand succeeds in every state with exactly the
\* plaintext of the literal, the same as over an empty register file with
\* no declared registers and no caller.
C6_LiteralLoad ==
    (last.op = "load" /\ last.operand.kind = "Literal") =>
        /\ last.result.ok
        /\ last.result.value = PlaintextValue(PlaintextFrom(last.operand.literal))
        /\ last.result = load(NoRegisters, NoRegisters, NotSet, last.operand)

C6_Witness ==
    /\ last.op = "load"
    /\ last.operand.kind = "Literal"
    /\ console_registers = NoRegisters
    /\ register_types = NoRegisters
    /\ last.result.ok

\* A record value with the visibility of its i-th entry replaced.
WithVisibility(value, i, visibility) ==
    RecordValue([value.entries EXCEPT ![i].visibility = visibility])

\* The outcome of the last load had the stored value been `value`.
ReloadWith(value) ==
    LET l == locator(last.operand.register)
    IN  IF last.op = "load"
        THEN load([console_registers EXCEPT ![l] = value], register_types,
                  caller, last.operand)
        ELSE load_circuit([circuit_registers EXCEPT ![l] = value],
                          register_types, caller_circuit, last.operand)

\* The value the last load read from, as stored in its own domain.
StoredValue == LoadedStore[locator(last.operand.register)]

\* The first segment of the last load's path, as an identifier of its domain.
FirstSegment ==
    IF last.op = "load" THEN Head(last.operand.register.path)
    ELSE CircuitIdentifierConstant(Head(last.operand.register.path))

\* C7: a member load from a record resolves to the selected entry's inner
\* plaintext whatever the entry's visibility: with a one-segment path the
\* resolved value is Plaintext(the entry's plaintext), the outcome of the
\* load is the same for the three visibility tags of the selected entry,
\* and the load returns the resolved value unless the type check fails.  A
\* first segment that names no entry of the record, or no field of a
\* plaintext value, fails with PathNotFound.
C7_MemberLoad ==
    (/\ IsRegisterLoad
     /\ last.operand.register.kind = "Member"
     /\ locator(last.operand.register) \in DOMAIN LoadedStore) =>
        LET stored == StoredValue
            path   == last.operand.register.path
        IN  IF stored.variant = "Record"
            THEN LET i == IndexOf(stored.entries, FirstSegment)
                 IN  IF i = 0 THEN last.result = Err("PathNotFound")
                     ELSE /\ \A visibility \in Modes :
                               ReloadWith(WithVisibility(stored, i, visibility))
                                   = last.result
                          /\ Len(path) = 1 =>
                               Resolved =
                                 Ok(PlaintextValue(stored.entries[i].plaintext))
                          /\ Resolved.ok =>
                               /\ Resolved.value.variant = "Plaintext"
                               /\ last.result \in {Resolved, Err("NotAMember"),
                                                   Err("TypeMismatch")}
            ELSE (\/ stored.plaintext.kind # "Struct"
                  \/ IndexOf(stored.plaintext.members, FirstSegment) = 0)
                     => last.result = Err("PathNotFound")

C7_Witness ==
    /\ last.op = "load"
    /\ last.operand = OperandRegister(RegisterMember(0, <<"amount">>))
    /\ 0 \in DOMAIN console_registers
    /\ console_registers[0] = TokenRecord("Public")
    /\ last.result = Ok(PlaintextValue(PlaintextFrom(U64Literal)))

\* The stores, the declared types and the calling context.
fileVars ==
    <<console_registers, circuit_registers, register_types, caller,
      caller_circuit>>

\* C18: load and load_circuit are read-only: a load, whether it succeeds or
\* fails, leaves the native store, the circuit store, the register types
\* and the calling context as they were; the same load made again in the
\* state it leaves returns the same result, and so does a load that
\* directly follows a load of the same operand in the same domain.
C18_LoadReadOnly ==
    [][/\ last'.op \in {"load", "load_circuit"} => UNCHANGED fileVars
       /\ last'.op = "load" =>
            last'.result = load(console_registers', register_types', caller',
                                last'.operand)
       /\ last'.op = "load_circuit" =>
            last'.result = load_circuit(circuit_registers', register_types',
                                        caller_circuit', last'.operand)
       /\ (/\ last.op \in {"load", "load_circuit"}
           /\ last'.op = last.op
           /\ last'.operand = last.operand)
            => last'.result = last.result]_vars

C18_Witness ==
    /\ last.op = "load"
    /\ last.operand.kind = "Register"
    /\ last.operand.register.kind = "Locator"
    /\ last.result.ok
    /\ locator(last.operand.register) \in DOMAIN console_registers
    /\ last.result.value = console_registers[locator(last.operand.register)]
    /\ DOMAIN circuit_registers # {}

(***************************************************************************)
(* Claims about scalar addition, under SpecAdd.                            *)
(***************************************************************************)
Added == rhs.field.mode # "None"

\* C2: for every pair of modes and every pair of canonical values, the sum
\* built by the circuit ejects to the native sum of the two values, reduced
\* modulo the scalar modulus.
C2_AddMatchesNative ==
    Added =>
        /\ scalar_eject_value(acc) = expected
        /\ scalar_eject_value(acc) =
               (scalar_eject_value(before) + scalar_eject_value(rhs))
                   % ScalarModulus

C2_Witness ==
    /\ Added
    /\ before = scalar_new("Constant", before.field.value)
    /\ rhs.field.mode = "Public"
    /\ before.field.value + rhs.field.value >= Pow2(size_in_bits)
    /\ scalar_eject_value(acc)
           = before.field.value + rhs.field.value - ScalarModulus

\* C8: the mode of the sum is decided by the two input modes alone: it is
\* the declared output mode, Constant exactly when both inputs are Constant
\* and Private otherwise, never Public.
C8_OutputMode ==
    Added =>
        /\ eject_mode(acc) = output_mode(eject_mode(before), eject_mode(rhs))
        /\ eject_mode(acc) = "Constant"
               <=> (eject_mode(before) = "Constant"
                    /\ eject_mode(rhs) = "Constant")
        /\ eject_mode(acc) \in {"Constant", "Private"}

C8_Witness ==
    /\ Added
    /\ eject_mode(before) = "Public"
    /\ eject_mode(rhs) = "Constant"
    /\ eject_mode(acc) = "Private"

\* C10: every scalar, fresh or the sum of any sequence of additions, holds
\* a value below the scalar modulus; a sum that reached the modulus is not
\* the value left in the result.
C10_Canonical ==
    /\ scalar_eject_value(acc) < ScalarModulus
    /\ (Added /\ before.field.value + rhs.field.value >= ScalarModulus)
           => scalar_eject_value(acc) # before.field.value + rhs.field.value

C10_Witness ==
    /\ Added
    /\ before.bits_le # NoBits
    /\ eject_mode(rhs) = "Private"
    /\ before.field.value + rhs.field.value >= ScalarModulus
    /\ scalar_eject_value(acc) < ScalarModulus

\* The last addition with the two values exchanged and the modes kept.
Exchanged ==
    add_assign(scalar_new(eject_mode(before), scalar_eject_value(rhs)),
               scalar_new(eject_mode(rhs), scalar_eject_value(before)))

\* C11: addition is commutative in both domains: for every pair of modes
\* and of canonical values, the circuit sum with the two values exchanged
\* ejects to the same value, and both are the native sum, which is the same
\* in either order.
C11_AddCommutative ==
    Added =>
        LET u == scalar_eject_value(before)
            v == scalar_eject_value(rhs)
        IN  /\ scalar_eject_value(acc) = scalar_eject_value(Exchanged)
            /\ scalar_eject_value(acc) = console_add(u, v)
            /\ scalar_eject_value(Exchanged) = console_add(v, u)
            /\ console_add(u, v) = console_add(v, u)
            /\ eject_mode(Exchanged) = eject_mode(acc)

C11_Witness ==
    /\ Added
    /\ eject_mode(before) = "Public"
    /\ eject_mode(rhs) = "Constant"
    /\ scalar_eject_value(before) < scalar_eject_value(rhs)
    /\ scalar_eject_value(before) + scalar_eject_value(rhs) > ScalarModulus
    /\ scalar_eject_value(acc) = scalar_eject_value(Exchanged)

\* The last addition took the path of a sum that is not constant.
AddedVariable == Added /\ ~(is_constant(before) /\ is_constant(rhs))

\* C19: on the path of a sum that is not constant, for canonical operands
\* the sum in the base field is the integer sum and is below
\* 2^(size_in_bits + 1), so its size_in_bits + 1 low bits rebuild it
\* exactly; the value kept is the sum when the sum is below the scalar
\* modulus and the sum less the modulus otherwise; and the size_in_bits bits
\* cached with the result are the bits of the value kept.
C19_ConditionalReduction ==
    AddedVariable =>
        LET u         == scalar_eject_value(before)
            v         == scalar_eject_value(rhs)
            sum       == field_add(to_field(before), to_field(rhs))
            bits_le   == to_lower_bits_le(sum, size_in_bits + 1)
            sanitized == from_bits_le(bits_le)
        IN  /\ sum.value = u + v
            /\ sum.value < Pow2(size_in_bits + 1)
            /\ Len(bits_le.bits) = size_in_bits + 1
            /\ sanitized.value = sum.value
            /\ acc.field.value =
                   IF u + v < ScalarModulus THEN u + v
                   ELSE u + v - ScalarModulus
            /\ Len(acc.bits_le) = size_in_bits
            /\ acc.bits_le = ToBitsLE(acc.field.value, size_in_bits)
            /\ FromBitsLE(acc.bits_le) = acc.field.value

C19_Witness ==
    /\ AddedVariable
    /\ scalar_eject_value(before) + scalar_eject_value(rhs)
           >= Pow2(size_in_bits)
    /\ Len(acc.bits_le) = size_in_bits
    /\ FromBitsLE(acc.bits_le)
           = scalar_eject_value(before) + scalar_eject_value(rhs)
               - ScalarModulus

(***************************************************************************)
(* The text form of registers.  A string is a sequence of characters; an   *)
(* identifier is the sequence of its characters.  The parser combinators   *)
(* return the rest of the input with what they recognised.                 *)
(***************************************************************************)
MaxLength == 6

Chars == {"r", "a", "0", "1", "."}

Strings == UNION {[1..n -> Chars] : n \in 0..MaxLength}

DecimalDigits == <<"0", "1", "2", "3", "4", "5", "6", "7", "8", "9">>

DigitChars == {DecimalDigits[i] : i \in DOMAIN DecimalDigits}

LetterChars == {"r", "a"}

\* The largest locator, scaled down from the largest u64.
LocatorLimit == 255

DigitValue(c) == (CHOOSE i \in DOMAIN DecimalDigits : DecimalDigits[i] = c) - 1

\* The length of the longest prefix of a string made of the given characters.
RECURSIVE PrefixLength(_, _)
PrefixLength(string, chars) ==
    IF string = <<>> \/ Head(string) \notin chars THEN 0
    ELSE 1 + PrefixLength(Tail(string), chars)

Drop(string, n) == SubSeq(string, n + 1, Len(string))

Take(string, n) == SubSeq(string, 1, n)

tag(t, string) ==
    IF Len(string) >= Len(t) /\ Take(string, Len(t)) = t
    THEN Ok(Drop(string, Len(t)))
    ELSE Err("ParseError")

\* str::parse::<u64> of a string of decimal digits: leading zeros are read,
\* a value above the largest locator is an error.
RECURSIVE DecimalValue(_, _)
DecimalValue(digits, value) ==
    IF digits = <<>> THEN Ok(value)
    ELSE LET next == 10 * value + DigitValue(Head(digits))
         IN  IF next > LocatorLimit THEN Err("ParseError")
             ELSE DecimalValue(Tail(digits), next)

parse_u64(digits) ==
    IF digits = <<>> THEN Err("ParseError") ELSE DecimalValue(digits, 0)

\* The decimal text of a number, as Display writes it.
RECURSIVE to_decimal(_)
to_decimal(n) ==
    IF n < 10 THEN <<DecimalDigits[n + 1]>>
    ELSE to_decimal(n \div 10) \o <<DecimalDigits[(n % 10) + 1]>>

\* Identifier::parse: a letter, then every letter and digit that follows.
identifier_parse(string) ==
    IF string = <<>> \/ Head(string) \notin LetterChars
    THEN Err("ParseError")
    ELSE LET n == 1 + PrefixLength(Tail(string), LetterChars \cup DigitChars)
         IN  Ok([rest |-> Drop(string, n), identifier |-> Take(string, n)])

\* Register::Member(locator, identifier) of the parser's crate: a member
\* with a path of one identifier.
RegisterMemberOf(l, identifier) == RegisterMember(l, <<identifier>>)

Parsed(rest, register) == Ok([rest |-> rest, register |-> register])

\* A faulty variant of parse: the member is not optional.
parse_member_required(string) ==
    LET r == tag(<<"r">>, string)
    IN  IF ~r.ok THEN r
        ELSE LET n == PrefixLength(r.value, DigitChars)
                 l == parse_u64(Take(r.value, n))
             IN  IF n = 0 \/ ~l.ok THEN Err("ParseError")
                 ELSE LET rest       == Drop(r.value, n)
                          dot        == tag(<<".">>, rest)
                          identifier == IF dot.ok
                                        THEN identifier_parse(dot.value)
                                        ELSE dot
                      IN  IF identifier.ok
                          THEN Parsed(identifier.value.rest,
                                      RegisterMemberOf(l.value,
                                          identifier.value.identifier))
                          ELSE Err("ParseError")

\* A faulty variant of parse: a register with no digits is register 0.
parse_default_locator(string) ==
    LET r == tag(<<"r">>, string)
    IN  IF ~r.ok THEN r
        ELSE LET n == PrefixLength(r.value, DigitChars)
                 l == IF n = 0 THEN Ok(0) ELSE parse_u64(Take(r.value, n))
             IN  IF ~l.ok THEN Err("ParseError")
                 ELSE LET rest       == Drop(r.value, n)
                          dot        == tag(<<".">>, rest)
                          identifier == IF dot.ok
                                        THEN identifier_parse(dot.value)
                                        ELSE dot
                      IN  IF identifier.ok
                          THEN Parsed(identifier.value.rest,
                                      RegisterMemberOf(l.value,
                                          identifier.value.identifier))
                          ELSE Parsed(rest, RegisterLocator(l.value))

\* Parser::parse of Register: `r`, one or more digits read as a u64, then
\* optionally a `.` and an identifier; what follows is left as the rest.
parse(string) ==
    LET r == tag(<<"r">>, string)
    IN  IF ~r.ok THEN r
        ELSE LET n == PrefixLength(r.value, DigitChars)
                 l == parse_u64(Take(r.value, n))
             IN  IF n = 0 \/ ~l.ok THEN Err("ParseError")
                 ELSE LET rest       == Drop(r.value, n)
                          dot        == tag(<<".">>, rest)
                          identifier == IF dot.ok
                                        THEN identifier_parse(dot.value)
                                        ELSE dot
                      IN  IF identifier.ok
                          THEN Parsed(identifier.value.rest,
                                      RegisterMemberOf(l.value,
                                          identifier.value.identifier))
                          ELSE Parsed(rest, RegisterLocator(l.value))

\* A faulty variant of fmt: a member is written without its dot.
fmt_without_dot(register) ==
    IF register.kind = "Locator"
    THEN <<"r">> \o to_decimal(register.locator)
    ELSE <<"r">> \o to_decimal(register.locator) \o register.path[1]

\* Display::fmt of Register.
fmt(register) ==
    IF register.kind = "Locator"
    THEN <<"r">> \o to_decimal(register.locator)
    ELSE <<"r">> \o to_decimal(register.locator) \o <<".">>
             \o register.path[1]

(***************************************************************************)
(* The ordering of registers.                                              *)
(***************************************************************************)
u64_cmp(a, b) == IF a < b THEN "Less" ELSE IF a > b THEN "Greater" ELSE "Equal"

Some(v) == [some |-> TRUE, value |-> v]

\* The rank of a variant in a derived ordering.
VariantRank(register) == IF register.kind = "Locator" THEN 0 ELSE 1

\* A faulty variant of cmp: the ordering a derive would give, by variant,
\* then locator, then identifier.
cmp_derived(self, other) ==
    IF VariantRank(self) # VariantRank(other)
    THEN u64_cmp(VariantRank(self), VariantRank(other))
    ELSE IF locator(self) # locator(other)
    THEN u64_cmp(locator(self), locator(other))
    ELSE IF self = other THEN "Equal"
    ELSE IF Len(self.path[1]) <= Len(other.path[1]) THEN "Less"
    ELSE "Greater"

\* Ord::cmp of Register.
cmp(self, other) == u64_cmp(locator(self), locator(other))

\* PartialOrd::partial_cmp of Register.
partial_cmp(self, other) == Some(cmp(self, other))

(***************************************************************************)
(* Registers as text and in order: a string is parsed and the register it  *)
(* gave is printed again; a register is printed and its text is parsed     *)
(* again; two registers are compared.                                      *)
(***************************************************************************)
LocatorValues == {0, 1, 10}

Identifiers == {<<"a">>, <<"r", "1">>}

RegisterValues ==
    {RegisterLocator(l) : l \in LocatorValues}
        \cup {RegisterMemberOf(l, identifier) :
                l \in LocatorValues, identifier \in Identifiers}

InitRegister ==
    /\ console_registers = NoRegisters
    /\ circuit_registers = NoRegisters
    /\ register_types = NoRegisters
    /\ caller = NotSet
    /\ caller_circuit = NotSet
    /\ last = [op |-> "none"]
    /\ InitScalars
    /\ wire = [op |-> "none"]
    /\ syntax \in
         {[op |-> "string", string |-> string] : string \in Strings}
           \cup {[op |-> "register", register |-> register] :
                   register \in RegisterValues}
           \cup {[op |-> "registers", self |-> self, other |-> other] :
                   self \in RegisterValues, other \in RegisterValues}

Parse ==
    /\ syntax.op = "string"
    /\ syntax' = [op |-> "parse", string |-> syntax.string,
                  result |-> parse(syntax.string)]
    /\ UNCHANGED <<regVars, addVars, wire>>

\* The register a complete parse gave is printed.
Reprint ==
    /\ syntax.op = "parse"
    /\ syntax.result.ok
    /\ syntax' = [op |-> "reprint", string |-> syntax.string,
                  result |-> syntax.result,
                  printed |-> fmt(syntax.result.value.register)]
    /\ UNCHANGED <<regVars, addVars, wire>>

Display ==
    /\ syntax.op = "register"
    /\ syntax' = [op |-> "fmt", register |-> syntax.register,
                  string |-> fmt(syntax.register)]
    /\ UNCHANGED <<regVars, addVars, wire>>

\* The text a register was printed as is parsed.
Reparse ==
    /\ syntax.op = "fmt"
    /\ syntax' = [op |-> "reparse", register |-> syntax.register,
                  string |-> syntax.string,
                  result |-> parse(syntax.string)]
    /\ UNCHANGED <<regVars, addVars, wire>>

Compare ==
    /\ syntax.op = "registers"
    /\ syntax' = [op |-> "cmp", self |-> syntax.self, other |-> syntax.other,
                  ordering |-> cmp(syntax.self, syntax.other),
                  partial |-> partial_cmp(syntax.self, syntax.other)]
    /\ UNCHANGED <<regVars, addVars, wire>>

NextRegister == Parse \/ Reprint \/ Display \/ Reparse \/ Compare

SpecRegister == InitRegister /\ [][NextRegister]_vars

(***************************************************************************)
(* Claims about the text form and the ordering of registers, under         *)
(* SpecRegister.  The grammar is stated on the text alone: the pieces of a *)
(* string between its dots.                                                *)
(***************************************************************************)
RECURSIVE Pieces(_)
Pieces(string) ==
    LET n == PrefixLength(string, Chars \ {"."})
    IN  IF n = Len(string) THEN <<string>>
        ELSE <<Take(string, n)>> \o Pieces(Drop(string, n + 1))

IsLocatorText(piece) ==
    /\ Len(piece) >= 2
    /\ Head(piece) = "r"
    /\ \A i \in 2..Len(piece) : piece[i] \in DigitChars

IsIdentifierText(piece) ==
    /\ piece # <<>>
    /\ Head(piece) \in LetterChars
    /\ \A i \in 2..Len(piece) : piece[i] \in LetterChars \cup DigitChars

\* `r`, digits, and k >= 0 segments of a dot and an identifier.
InGrammar(string) ==
    LET pieces == Pieces(string)
    IN  /\ IsLocatorText(pieces[1])
        /\ \A i \in 2..Len(pieces) : IsIdentifierText(pieces[i])

Segments(string) == Tail(Pieces(string))

RECURSIVE Number(_)
Number(digits) ==
    IF digits = <<>> THEN 0
    ELSE 10 * Number(Take(digits, Len(digits) - 1))
           + DigitValue(digits[Len(digits)])

LocatorNumber(string) == Number(Tail(Pieces(string)[1]))

RECURSIVE Dotted(_)
Dotted(segments) ==
    IF segments = <<>> THEN <<>>
    ELSE <<".">> \o Head(segments) \o Dotted(Tail(segments))

ParsedString == syntax.op = "parse" /\ InGrammar(syntax.string)

\* C12 as stated: a string of the grammar with k segments, its digits
\* denoting a locator, parses with nothing left, into a Locator for k = 0
\* and into a Member holding the k segments in order for k >= 1.
C12_AsStated ==
    (ParsedString /\ LocatorNumber(syntax.string) <= LocatorLimit) =>
        LET n        == LocatorNumber(syntax.string)
            segments == Segments(syntax.string)
        IN  /\ syntax.result.ok
            /\ syntax.result.value.rest = <<>>
            /\ segments = <<>> =>
                 syntax.result.value.register = RegisterLocator(n)
            /\ segments # <<>> =>
                 syntax.result.value.register = RegisterMember(n, segments)

\* C12: a string of the grammar whose digits denote a locator within range
\* parses; with no segment it gives the Locator and with one segment the
\* Member of that segment, nothing left; with two or more segments it
\* gives the Member of the first segment only and leaves the other
\* segments, from the second dot on, as the rest.  Digits beyond the range
\* of a locator are an error.
C12_RegisterGrammar ==
    ParsedString =>
        LET n        == LocatorNumber(syntax.string)
            segments == Segments(syntax.string)
        IN  IF n > LocatorLimit THEN ~syntax.result.ok
            ELSE /\ syntax.result.ok
                 /\ segments = <<>> =>
                      syntax.result = Parsed(<<>>, RegisterLocator(n))
                 /\ Len(segments) = 1 =>
                      syntax.result = Parsed(<<>>, RegisterMember(n, segments))
                 /\ Len(segments) >= 2 =>
                      syntax.result =
                        Parsed(Dotted(Tail(segments)),
                               RegisterMember(n, <<Head(segments)>>))

C12_Witness ==
    /\ ParsedString
    /\ Len(Segments(syntax.string)) = 2
    /\ syntax.result.ok
    /\ syntax.result.value.register.kind = "Member"
    /\ Len(syntax.result.value.register.path) = 1
    /\ syntax.result.value.rest = Dotted(Tail(Segments(syntax.string)))

\* The text of a register with the leading zeros of its digits dropped.
RECURSIVE StripZeros(_)
StripZeros(digits) ==
    IF Len(digits) >= 2 /\ Head(digits) = "0" THEN StripZeros(Tail(digits))
    ELSE digits

Canonical(string) ==
    LET n == PrefixLength(Tail(string), DigitChars)
    IN  <<"r">> \o StripZeros(Take(Tail(string), n))
            \o Drop(Tail(string), n)

Complete == syntax.result.ok /\ syntax.result.value.rest = <<>>

\* C13 as stated: the printed form of a register parses, with nothing left,
\* into that register; and a string that parses with nothing left is the
\* printed form of the register it gave.
C13_AsStated ==
    /\ syntax.op = "reparse" =>
         syntax.result = Parsed(<<>>, syntax.register)
    /\ (syntax.op = "reprint" /\ Complete) => syntax.printed = syntax.string

\* C13: the printed form of a register (a locator, or a member of one
\* identifier) parses, with nothing left, into that register; a string that
\* parses with nothing left prints as itself with the leading zeros of its
\* locator dropped, hence as itself when it has none, and the printed text
\* parses into the same register.
C13_RoundTrip ==
    /\ syntax.op = "reparse" =>
         syntax.result = Parsed(<<>>, syntax.register)
    /\ (syntax.op = "reprint" /\ Complete) =>
         /\ syntax.printed = Canonical(syntax.string)
         /\ Canonical(syntax.string) = syntax.string =>
              syntax.printed = syntax.string
         /\ parse(syntax.printed) = syntax.result

C13_Witness ==
    /\ syntax.op = "reprint"
    /\ Complete
    /\ syntax.result.value.register.kind = "Member"
    /\ syntax.printed # syntax.string
    /\ parse(syntax.printed) = syntax.result

\* `r` and digits, then a dot that no identifier follows.
MalformedSegment(string) ==
    /\ string # <<>>
    /\ Head(string) = "r"
    /\ LET n    == PrefixLength(Tail(string), DigitChars)
           rest == Drop(Tail(string), n)
       IN  /\ n >= 1
           /\ rest # <<>>
           /\ Head(rest) = "."
           /\ (Len(rest) = 1 \/ rest[2] \notin LetterChars)

MissingDigits(string) ==
    /\ string # <<>>
    /\ Head(string) = "r"
    /\ (Len(string) = 1 \/ string[2] \notin DigitChars)

\* C14 as stated: the empty string, `r` with no digit after it and a dot
\* that no identifier follows are all errors.
C14_AsStated ==
    syntax.op = "parse" =>
        /\ syntax.string = <<>> => ~syntax.result.ok
        /\ MissingDigits(syntax.string) => ~syntax.result.ok
        /\ MalformedSegment(syntax.string) => ~syntax.result.ok

\* C14: parsing ends in a result, never otherwise: an error for the empty
\* string, for a string that does not begin with `r` and for `r` with no
\* digit after it.  A dot after the digits that no identifier follows is no
\* error when the locator is within range: the parse gives the Locator and
\* leaves the text from the dot on as the rest, so that the string is never
\* parsed with nothing left.
C14_ParseFailures ==
    syntax.op = "parse" =>
        /\ syntax.result.ok \in BOOLEAN
        /\ syntax.string = <<>> => syntax.result = Err("ParseError")
        /\ (syntax.string # <<>> /\ Head(syntax.string) # "r") =>
             syntax.result = Err("ParseError")
        /\ MissingDigits(syntax.string) => syntax.result = Err("ParseError")
        /\ MalformedSegment(syntax.string) =>
             LET n == PrefixLength(Tail(syntax.string), DigitChars)
                 l == Number(Take(Tail(syntax.string), n))
             IN  IF l > LocatorLimit THEN syntax.result = Err("ParseError")
                 ELSE syntax.result =
                        Parsed(Drop(syntax.string, n + 1), RegisterLocator(l))

C14_Witness ==
    /\ syntax.op = "parse"
    /\ syntax.string = <<"r", "0", ".">>
    /\ syntax.result = Parsed(<<".">>, RegisterLocator(0))

\* C15: the order of two registers of any variants is the order of their
\* locators as numbers, and partial_cmp is Some of cmp: a register of a
\* smaller locator is Less whatever the identifiers, and two registers of
\* the same locator are Equal in order also when they are not equal.
C15_OrderingByLocator ==
    syntax.op = "cmp" =>
        LET a == locator(syntax.self)
            b == locator(syntax.other)
        IN  /\ syntax.ordering \in {"Less", "Equal", "Greater"}
            /\ syntax.ordering = "Less" <=> a < b
            /\ syntax.ordering = "Equal" <=> a = b
            /\ syntax.ordering = "Greater" <=> a > b
            /\ syntax.partial = Some(syntax.ordering)
            /\ syntax.ordering = cmp(RegisterLocator(a), RegisterLocator(b))

C15_Witness ==
    /\ syntax.op = "cmp"
    /\ syntax.self.kind = "Member"
    /\ syntax.other.kind = "Member"
    /\ syntax.self # syntax.other
    /\ locator(syntax.self) = locator(syntax.other)
    /\ syntax.ordering = "Equal"

(***************************************************************************)
(* The serialization of values.  The compact binary encoding is a sequence *)
(* of bytes: a variant byte, then the value field by field; a decoder      *)
(* returns what it read with the bytes that are left.                      *)
(***************************************************************************)
\* The identifiers and the literal types, by the code each is written as.
IdentifierNames == <<"owner", "amount", "token">>

LiteralTypes == <<"boolean", "u64">>

VisibilityNames == <<"Constant", "Public", "Private">>

CodeOf(names, name) == (CHOOSE i \in DOMAIN names : names[i] = name) - 1

RECURSIVE to_bytes_le_int(_, _)
to_bytes_le_int(n, width) ==
    IF width = 0 THEN <<>>
    ELSE <<n % 256>> \o to_bytes_le_int(n \div 256, width - 1)

RECURSIVE from_bytes_le_int(_)
from_bytes_le_int(bytes) ==
    IF bytes = <<>> THEN 0
    ELSE Head(bytes) + 256 * from_bytes_le_int(Tail(bytes))

\* The bytes each literal type requires.
LiteralWidth(ty) == IF ty = "boolean" THEN 1 ELSE 8

literal_to_bytes_le(literal) ==
    <<CodeOf(LiteralTypes, literal.ty)>>
        \o to_bytes_le_int(literal.val, LiteralWidth(literal.ty))

RECURSIVE plaintext_to_bytes_le(_)
RECURSIVE members_to_bytes_le(_)
plaintext_to_bytes_le(p) ==
    IF p.kind = "Literal" THEN <<0>> \o literal_to_bytes_le(p.literal)
    ELSE <<1, Len(p.members)>> \o members_to_bytes_le(p.members)

members_to_bytes_le(members) ==
    IF members = <<>> THEN <<>>
    ELSE <<CodeOf(IdentifierNames, Head(members).name)>>
           \o plaintext_to_bytes_le(Head(members).plaintext)
           \o members_to_bytes_le(Tail(members))

RECURSIVE entries_to_bytes_le(_)
entries_to_bytes_le(entries) ==
    IF entries = <<>> THEN <<>>
    ELSE <<CodeOf(IdentifierNames, Head(entries).name),
           CodeOf(VisibilityNames, Head(entries).visibility)>>
           \o plaintext_to_bytes_le(Head(entries).plaintext)
           \o entries_to_bytes_le(Tail(entries))

\* ToBytes::to_bytes_le of Value.
to_bytes_le(value) ==
    IF value.variant = "Plaintext"
    THEN <<0>> \o plaintext_to_bytes_le(value.plaintext)
    ELSE <<1, Len(value.entries)>> \o entries_to_bytes_le(value.entries)

Read(value, rest) == Ok([value |-> value, rest |-> rest])

ReadError == Err("InvalidData")

literal_read_le(bytes) ==
    IF bytes = <<>> \/ Head(bytes) >= Len(LiteralTypes) THEN ReadError
    ELSE LET ty    == LiteralTypes[Head(bytes) + 1]
             width == LiteralWidth(ty)
         IN  IF Len(bytes) < 1 + width THEN ReadError
             ELSE LET val == from_bytes_le_int(SubSeq(bytes, 2, 1 + width))
                  IN  IF ty = "boolean" /\ val > 1 THEN ReadError
                      ELSE Read(Literal(ty, val), Drop(bytes, 1 + width))

RECURSIVE plaintext_read_le(_)
RECURSIVE members_read_le(_, _, _)
plaintext_read_le(bytes) ==
    IF bytes = <<>> THEN ReadError
    ELSE IF Head(bytes) = 0
    THEN LET literal == literal_read_le(Tail(bytes))
         IN  IF literal.ok
             THEN Read(PlaintextFrom(literal.value.value), literal.value.rest)
             ELSE literal
    ELSE IF Head(bytes) = 1 /\ Len(bytes) >= 2
    THEN members_read_le(Drop(bytes, 2), bytes[2], <<>>)
    ELSE ReadError

members_read_le(bytes, remaining, members) ==
    IF remaining = 0 THEN Read(Struct(members), bytes)
    ELSE IF bytes = <<>> \/ Head(bytes) >= Len(IdentifierNames) THEN ReadError
    ELSE LET p == plaintext_read_le(Tail(bytes))
         IN  IF ~p.ok THEN p
             ELSE members_read_le(
                      p.value.rest, remaining - 1,
                      Append(members,
                             Member(IdentifierNames[Head(bytes) + 1],
                                    p.value.value)))

RECURSIVE entries_read_le(_, _, _)
entries_read_le(bytes, remaining, entries) ==
    IF remaining = 0 THEN Read(RecordValue(entries), bytes)
    ELSE IF \/ Len(bytes) < 2
            \/ bytes[1] >= Len(IdentifierNames)
            \/ bytes[2] >= Len(VisibilityNames)
    THEN ReadError
    ELSE LET p == plaintext_read_le(Drop(bytes, 2))
         IN  IF ~p.ok THEN p
             ELSE entries_read_le(
                      p.value.rest, remaining - 1,
                      Append(entries,
                             Entry(IdentifierNames[bytes[1] + 1],
                                   VisibilityNames[bytes[2] + 1],
                                   p.value.value)))

\* FromBytes::read_le of Value.
read_le(bytes) ==
    IF bytes = <<>> THEN ReadError
    ELSE IF Head(bytes) = 0
    THEN LET p == plaintext_read_le(Tail(bytes))
         IN  IF p.ok THEN Ok(PlaintextValue(p.value.value)) ELSE p
    ELSE IF Head(bytes) = 1 /\ Len(bytes) >= 2
    THEN LET r == entries_read_le(Drop(bytes, 2), bytes[2], <<>>)
         IN  IF r.ok THEN Ok(r.value.value) ELSE r
    ELSE ReadError

(***************************************************************************)
(* The text of a value: braces around `name: value` members parted by      *)
(* commas, a literal as its digits and its type, and in a record a         *)
(* visibility suffix after every literal of an entry.                      *)
(***************************************************************************)
VisibilityTexts == <<"constant", "public", "private">>

NoSuffix == <<>>

Suffix(visibility) ==
    <<".", VisibilityTexts[CodeOf(VisibilityNames, visibility) + 1]>>

literal_to_string(literal) ==
    IF literal.ty = "boolean"
    THEN <<IF literal.val = 1 THEN "true" ELSE "false">>
    ELSE to_decimal(literal.val) \o <<literal.ty>>

RECURSIVE plaintext_to_string(_, _)
RECURSIVE members_to_string(_, _)
plaintext_to_string(p, suffix) ==
    IF p.kind = "Literal" THEN literal_to_string(p.literal) \o suffix
    ELSE <<"{">> \o members_to_string(p.members, suffix) \o <<"}">>

members_to_string(members, suffix) ==
    <<Head(members).name, ":">>
        \o plaintext_to_string(Head(members).plaintext, suffix)
        \o IF Len(members) = 1 THEN <<>>
           ELSE <<",">> \o members_to_string(Tail(members), suffix)

RECURSIVE entries_to_string(_)
entries_to_string(entries) ==
    <<Head(entries).name, ":">>
        \o plaintext_to_string(Head(entries).plaintext,
                               Suffix(Head(entries).visibility))
        \o IF Len(entries) = 1 THEN <<>>
           ELSE <<",">> \o entries_to_string(Tail(entries))

\* Display of Value (to_string).
to_string(value) ==
    IF value.variant = "Plaintext"
    THEN plaintext_to_string(value.plaintext, NoSuffix)
    ELSE <<"{">> \o entries_to_string(value.entries) \o <<"}">>

TextError == Err("ParseError")

Among(names) == {names[i] : i \in DOMAIN names}

literal_parse(tokens) ==
    IF tokens = <<>> THEN TextError
    ELSE IF Head(tokens) \in {"true", "false"}
    THEN Read(Literal("boolean", IF Head(tokens) = "true" THEN 1 ELSE 0),
              Tail(tokens))
    ELSE LET n == PrefixLength(tokens, DigitChars)
         IN  IF n = 0 \/ Len(tokens) = n
                \/ tokens[n + 1] \notin Among(LiteralTypes) \ {"boolean"}
             THEN TextError
             ELSE Read(Literal(tokens[n + 1], Number(Take(tokens, n))),
                       Drop(tokens, n + 1))

\* The visibility after a literal: none where no suffix is looked for.
visibility_parse(tokens, suffixed) ==
    IF ~suffixed THEN Read("None", tokens)
    ELSE IF Len(tokens) >= 2 /\ tokens[1] = "."
            /\ tokens[2] \in Among(VisibilityTexts)
    THEN Read(VisibilityNames[CodeOf(VisibilityTexts, tokens[2]) + 1],
              Drop(tokens, 2))
    ELSE TextError

Item(plaintext, visibility, rest) ==
    Ok([value |-> plaintext, visibility |-> visibility, rest |-> rest])

RECURSIVE plaintext_parse(_, _)
RECURSIVE members_parse(_, _, _, _)
plaintext_parse(tokens, suffixed) ==
    IF tokens # <<>> /\ Head(tokens) = "{"
    THEN members_parse(Tail(tokens), suffixed, <<>>, "None")
    ELSE LET literal == literal_parse(tokens)
         IN  IF ~literal.ok THEN literal
             ELSE LET v == visibility_parse(literal.value.rest, suffixed)
                  IN  IF ~v.ok THEN v
                      ELSE Item(PlaintextFrom(literal.value.value),
                                v.value.value, v.value.rest)

\* The members of a struct up to its closing brace; the visibility is that
\* of the first literal.
members_parse(tokens, suffixed, members, visibility) ==
    IF Len(tokens) < 2 \/ tokens[1] \notin Among(IdentifierNames)
       \/ tokens[2] # ":"
    THEN TextError
    ELSE LET p == plaintext_parse(Drop(tokens, 2), suffixed)
         IN  IF ~p.ok THEN p
             ELSE LET rest == p.value.rest
                      all  == Append(members,
                                     Member(tokens[1], p.value.value))
                      vis  == IF members = <<>> THEN p.value.visibility
                              ELSE visibility
                  IN  IF rest = <<>> THEN TextError
                      ELSE IF Head(rest) = "}"
                      THEN Item(Struct(all), vis, Tail(rest))
                      ELSE IF Head(rest) = ","
                      THEN members_parse(Tail(rest), suffixed, all, vis)
                      ELSE TextError

RECURSIVE entries_parse(_, _)
entries_parse(tokens, entries) ==
    IF Len(tokens) < 2 \/ tokens[1] \notin Among(IdentifierNames)
       \/ tokens[2] # ":"
    THEN TextError
    ELSE LET p == plaintext_parse(Drop(tokens, 2), TRUE)
         IN  IF ~p.ok THEN p
             ELSE LET rest == p.value.rest
                      all  == Append(entries,
                                     Entry(tokens[1], p.value.visibility,
                                           p.value.value))
                  IN  IF rest = <<>> THEN TextError
                      ELSE IF Head(rest) = "}"
                      THEN Read(RecordValue(all), Tail(rest))
                      ELSE IF Head(rest) = ","
                      THEN entries_parse(Tail(rest), all)
                      ELSE TextError

record_parse(tokens) ==
    IF tokens # <<>> /\ Head(tokens) = "{"
    THEN entries_parse(Tail(tokens), <<>>)
    ELSE TextError

\* Parser::parse of Value: a plaintext, or else a record.
value_parse(tokens) ==
    LET p == plaintext_parse(tokens, FALSE)
    IN  IF p.ok THEN Read(PlaintextValue(p.value.value), p.value.rest)
        ELSE record_parse(tokens)

\* FromStr::from_str of Value: the whole string is a value.
from_str(string) ==
    LET v == value_parse(string)
    IN  IF ~v.ok THEN v
        ELSE IF v.value.rest # <<>> THEN TextError
        ELSE Ok(v.value.value)

(***************************************************************************)
(* Serialize and Deserialize of Value: the printed string for a            *)
(* human-readable format, the framed bytes for any other.                  *)
(***************************************************************************)
Str(string) == [kind |-> "str", string |-> string]

Bytes(bytes) == [kind |-> "bytes", bytes |-> bytes]

SizeWidth == 8

collect_str(value) == Str(to_string(value))

\* ToBytesSerializer::serialize: the bytes of the value with no size.
serialize_bytes(value) == Bytes(to_bytes_le(value))

\* ToBytesSerializer::serialize_with_size_encoding: the size of the compact
\* encoding in 8 bytes, least significant first, then the compact encoding.
serialize_with_size_encoding(value) ==
    LET bytes == to_bytes_le(value)
    IN  Bytes(to_bytes_le_int(Len(bytes), SizeWidth) \o bytes)

\* A faulty variant of serialize: the bytes are written with no size.
serialize_without_size_encoding(value, human_readable) ==
    IF human_readable THEN collect_str(value)
    ELSE serialize_bytes(value)

serialize(value, human_readable) ==
    IF human_readable THEN collect_str(value)
    ELSE serialize_with_size_encoding(value)

\* String::deserialize, then FromStr::from_str with its error mapped.
deserialize_string(data) ==
    IF data.kind # "str" THEN Err("Custom")
    ELSE LET value == from_str(data.string)
         IN  IF value.ok THEN value ELSE Err("Custom")

\* FromBytesDeserializer::deserialize: a value read from bytes with no size.
deserialize_bytes(data) ==
    IF data.kind # "bytes" THEN Err("Custom")
    ELSE LET value == read_le(data.bytes)
         IN  IF value.ok THEN value ELSE Err("Custom")

\* FromBytesDeserializer::deserialize_with_size_encoding: the size, then
\* that many bytes, read as a value.
deserialize_with_size_encoding(data) ==
    IF data.kind # "bytes" \/ Len(data.bytes) < SizeWidth THEN Err("Custom")
    ELSE LET size == from_bytes_le_int(Take(data.bytes, SizeWidth))
         IN  IF Len(data.bytes) < SizeWidth + size THEN Err("Custom")
             ELSE deserialize_bytes(
                      Bytes(SubSeq(data.bytes, SizeWidth + 1,
                                   SizeWidth + size)))

\* A faulty variant of deserialize: the bytes are read as having no size.
deserialize_without_size_encoding(data, human_readable) ==
    IF human_readable THEN deserialize_string(data)
    ELSE deserialize_bytes(data)

deserialize(data, human_readable) ==
    IF human_readable THEN deserialize_string(data)
    ELSE deserialize_with_size_encoding(data)

(***************************************************************************)
(* Values through each form and back.                                      *)
(***************************************************************************)
LiteralInputs ==
    {Literal("u64", n) : n \in {0, 100, 300}}
        \cup {Literal("boolean", b) : b \in {0, 1}}

AmountStruct(literal) == Struct(<<Member("amount", PlaintextFrom(literal))>>)

PlaintextInputs ==
    {PlaintextFrom(literal) : literal \in LiteralInputs}
        \cup {AmountStruct(literal) : literal \in LiteralInputs}
        \cup {Struct(<<Member("owner", PlaintextFrom(a)),
                       Member("token", AmountStruct(b))>>) :
                a \in LiteralInputs, b \in LiteralInputs}

RecordInputs ==
    {RecordValue(<<Entry("owner", v, PlaintextFrom(literal)),
                   Entry("token", w, AmountStruct(U64Literal))>>) :
       v \in Modes, w \in Modes, literal \in LiteralInputs}

ValueInputs ==
    {PlaintextValue(p) : p \in PlaintextInputs} \cup RecordInputs

InitValue ==
    /\ console_registers = NoRegisters
    /\ circuit_registers = NoRegisters
    /\ register_types = NoRegisters
    /\ caller = NotSet
    /\ caller_circuit = NotSet
    /\ last = [op |-> "none"]
    /\ InitScalars
    /\ syntax = [op |-> "none"]
    /\ wire \in {[op |-> "value", value |-> value] : value \in ValueInputs}

DisplayValue ==
    /\ wire.op = "value"
    /\ wire' = [op |-> "to_string", value |-> wire.value,
                string |-> to_string(wire.value)]
    /\ UNCHANGED <<regVars, addVars, syntax>>

FromStr ==
    /\ wire.op = "to_string"
    /\ wire' = [op |-> "from_str", value |-> wire.value,
                string |-> wire.string, result |-> from_str(wire.string)]
    /\ UNCHANGED <<regVars, addVars, syntax>>

ToBytesLe ==
    /\ wire.op = "value"
    /\ wire' = [op |-> "to_bytes_le", value |-> wire.value,
                bytes |-> to_bytes_le(wire.value)]
    /\ UNCHANGED <<regVars, addVars, syntax>>

ReadLe ==
    /\ wire.op = "to_bytes_le"
    /\ wire' = [op |-> "read_le", value |-> wire.value,
                bytes |-> wire.bytes, result |-> read_le(wire.bytes)]
    /\ UNCHANGED <<regVars, addVars, syntax>>

Serialize ==
    /\ wire.op = "value"
    /\ \E human_readable \in BOOLEAN :
         wire' = [op |-> "serialize", value |-> wire.value,
                  human_readable |-> human_readable,
                  data |-> serialize(wire.value, human_readable)]
    /\ UNCHANGED <<regVars, addVars, syntax>>

Deserialize ==
    /\ wire.op = "serialize"
    /\ wire' = [op |-> "deserialize", value |-> wire.value,
                human_readable |-> wire.human_readable,
                data |-> wire.data,
                result |-> deserialize(wire.data, wire.human_readable)]
    /\ UNCHANGED <<regVars, addVars, syntax>>

NextValue ==
    DisplayValue \/ FromStr \/ ToBytesLe \/ ReadLe \/ Serialize \/ Deserialize

SpecValue == InitValue /\ [][NextValue]_vars

\* C16: a value comes back equal, and so of the same variant, from each of
\* its forms: from_str of its printed string, read_le of its compact bytes,
\* and deserialize of what serialize wrote, framed bytes or string; and
\* what serialize writes for a human-readable format is the printed string.
C16_RoundTrips ==
    /\ wire.op \in {"from_str", "read_le", "deserialize"} =>
         /\ wire.result = Ok(wire.value)
         /\ wire.result.value.variant = wire.value.variant
    /\ (wire.op \in {"serialize", "deserialize"} /\ wire.human_readable) =>
         wire.data = Str(to_string(wire.value))
    /\ (wire.op \in {"serialize", "deserialize"} /\ ~wire.human_readable) =>
         wire.data.kind = "bytes"

C16_Witness ==
    /\ wire.op = "deserialize"
    /\ ~wire.human_readable
    /\ wire.value.variant = "Record"
    /\ wire.value.entries[2].visibility = "Private"
    /\ wire.result = Ok(wire.value)

\* C17: the bytes serialize writes for a format that is not human-readable
\* are 8 bytes holding the length of the compact encoding, least
\* significant byte first, followed by the compact encoding unchanged: the
\* bytes after the first 8 are the compact encoding and the framed length
\* is the compact length plus 8.
C17_FramedEncoding ==
    (wire.op = "serialize" /\ ~wire.human_readable) =>
        LET compact == to_bytes_le(wire.value)
            framed  == wire.data.bytes
        IN  /\ wire.data.kind = "bytes"
            /\ Len(framed) = Len(compact) + 8
            /\ SubSeq(framed, 9, Len(framed)) = compact
            /\ \A i \in 1..Len(framed) : framed[i] \in 0..255
            /\ framed[1] + 256 * framed[2] = Len(compact)
            /\ \A i \in 3..8 : framed[i] = 0

C17_Witness ==
    /\ wire.op = "serialize"
    /\ ~wire.human_readable
    /\ wire.value.variant = "Plaintext"
    /\ wire.value.plaintext.kind = "Struct"
    /\ Len(wire.data.bytes) = Len(to_bytes_le(wire.value)) + 8
    /\ wire.data.bytes[1] = Len(to_bytes_le(wire.value))

====
